---- MODULE Spec2Model ----
(***************************************************************************)
(* A model of the D-Bus client connection of go-dbus (src/dbus.go): the    *)
(* Connect and Initialize sequences, the receiver goroutine                *)
(* (_MessageReceiver), the dispatch goroutine (_RunLoop /                  *)
(* _MessageDispatch), the synchronous call path (Call / _SendSync), signal *)
(* emission (Emit) and signal handler registration (Handle).               *)
(* The bus daemon is the environment: it reads the calls written to the    *)
(* socket and writes replies, errors and signals to the inbound stream.    *)
(***************************************************************************)
EXTENDS Integers, Sequences, FiniteSets, TLC

VARIABLES
    pc,                 \* per thread: where the thread is inside its API call
    op,                 \* per thread: the API call it is in (or last finished)
    msg,                \* per thread: the message built by Call (msg in _SendSync)
    ret,                \* per thread: the variable ret of Call (dbus.go:433)
    authErr,            \* err of Initialize (dbus.go:248): "none" until _Auth returned
    initRet,            \* what Initialize returned: "none" while it has not
    nextSerial,         \* the serial counter NewMessage draws from
    uniqName,           \* Connection.uniqName
    methodCallReplies,  \* Connection.methodCallReplies: serial -> closure
    signalMatchRules,   \* Connection.signalMatchRules
    buffer,             \* Connection.buffer (inbound byte accumulator)
    wire,               \* bytes the daemon wrote that conn.Read has not returned yet
    sockOut,            \* bytes written with conn.Write, in order
    rxPc,               \* position of the _MessageReceiver goroutine
    rxMsg,              \* the message _MessageReceiver holds for msgChan
    rlPc,               \* position of the _RunLoop goroutine
    cur,                \* msg of the running _MessageDispatch
    sigLen,             \* length of the slice the range statement iterates
    sigIdx,             \* index of the range statement
    log,                \* every callback / handler invocation, in order
    nDisp,              \* number of messages handed to _MessageDispatch
    nSent,              \* number of messages the daemon has written
    connState,          \* the socket: "open", or "closed" once the connection died
    readErr,            \* e of the last _UpdateBuffer (dbus.go:321)
    decoded,            \* messages _MessageReceiver decoded since its last read
    mapAccess,          \* the goroutines inside an operation on methodCallReplies
    emitErr,            \* per thread: the error Emit returned (dbus.go:458)
    busType,            \* the argument of Connect
    address,            \* the address variable of the bus in the environment
    connectRes,         \* how Connect ended: "none" while it has not been called
    writeLock,          \* the goroutine inside conn.Write, or "none"
    written,            \* per thread: bytes of its message conn.Write has written
    writeErr,           \* per thread: the error of its conn.Write (dbus.go:335)
    callErr,            \* per thread: the error Call returned (dbus.go:438)
    hCall               \* serial of the call made by the running handler, or 0

vars == <<pc, op, msg, ret, authErr, initRet, nextSerial, uniqName, methodCallReplies,
          signalMatchRules, buffer, wire, sockOut, rxPc, rxMsg, rlPc, cur,
          sigLen, sigIdx, log, nDisp, nSent, connState, readErr, decoded,
          mapAccess, emitErr, busType, address, connectRes, writeLock,
          written, writeErr, callErr, hCall>>

rxVars == <<buffer, rxPc, rxMsg>>
sigVars == <<sigLen, sigIdx>>
connectVars == <<busType, address, connectRes>>
\* What the receiver does not touch, and what no other action touches.
lockVars == <<writeLock, written>>
errVars == <<writeErr, callErr>>
envVars == <<connState, mapAccess, emitErr, connectVars, lockVars, errVars, hCall>>
auxVars == <<envVars, readErr, decoded>>

----------------------------------------------------------------------------
\* Bounds of the model.

\* Serials NewMessage hands out (serial 1 is the Hello call).
MaxSerial == 3
\* Messages the daemon writes to the connection.
MaxInbound == 3
\* Rules registered with Handle.
MaxRules == 2

\* Size of the read buffer of _UpdateBuffer.
ReadBufSize == 4096

Threads == {"T1", "T2"}
\* The thread that runs Initialize.
Main == "T1"
\* The goroutine of _RunLoop, as a user of methodCallReplies.
RunLoop == "runLoop"

Ifaces == {"I1", "I2"}

----------------------------------------------------------------------------
\* Messages.

Message(ty, serial, rs, iface, member, params) ==
    [Type |-> ty, serial |-> serial, replySerial |-> rs,
     Iface |-> iface, Member |-> member, Params |-> params]

NoMsg == Message("NONE", 0, 0, "", "", <<>>)

\* A MatchRule: an unset field ("") is a wildcard.
RuleSet == {[Iface |-> ""], [Iface |-> "I1"]}

\* MatchRule._Match: field-wise equality on every set predicate.
Match(mr, m) == mr.Iface # "" => mr.Iface = m.Iface

\* MatchRule._ToString: the rule as the argument of AddMatch.
MatchRuleToString(mr) ==
    <<"type='signal'">> \o (IF mr.Iface # "" THEN <<"interface", mr.Iface>> ELSE <<>>)

\* Message._Marshal: a message on the wire is a header unit followed by an
\* end-of-body unit.
Marshal(m) == <<[k |-> "hdr", m |-> m], [k |-> "end", m |-> NoMsg]>>

\* _Unmarshal: one message from the front of the bytes; n is the number of
\* bytes consumed.
Unmarshal(bytes) ==
    IF Len(bytes) < 2
    THEN [err |-> "Incomplete", msg |-> NoMsg, n |-> 0]
    ELSE IF bytes[1].k = "hdr" /\ bytes[2].k = "end"
    THEN [err |-> "nil", msg |-> bytes[1].m, n |-> 2]
    ELSE [err |-> "MalformedMessage", msg |-> NoMsg, n |-> 0]

Drop(s, n) == SubSeq(s, n + 1, Len(s))
Take(s, n) == SubSeq(s, 1, n)
Min(a, b) == IF a < b THEN a ELSE b

\* The calls the daemon has received: the METHOD_CALL headers written so far.
CallsWritten ==
    {sockOut[i].m : i \in {j \in 1..Len(sockOut) :
                             sockOut[j].k = "hdr" /\ sockOut[j].m.Type = "METHOD_CALL"}}

----------------------------------------------------------------------------
InitConnection ==
    /\ pc = [t \in Threads |-> IF t = Main THEN "auth" ELSE "idle"]
    /\ op = [t \in Threads |-> IF t = Main THEN "Initialize" ELSE "none"]
    /\ msg = [t \in Threads |-> NoMsg]
    /\ ret = [t \in Threads |-> <<>>]
    /\ authErr = "none"
    /\ initRet = "none"
    /\ nextSerial = 1
    /\ uniqName = ""
    /\ methodCallReplies = <<>>
    /\ signalMatchRules = <<>>
    /\ buffer = <<>>
    /\ wire = <<>>
    /\ sockOut = <<>>
    /\ rxPc = "notStarted"
    /\ rxMsg = NoMsg
    /\ rlPc = "notStarted"
    /\ cur = NoMsg
    /\ sigLen = 0
    /\ sigIdx = 0
    /\ log = <<>>
    /\ nDisp = 0
    /\ nSent = 0
    /\ connState = "open"
    /\ readErr = "nil"
    /\ decoded = 0
    /\ mapAccess = {}
    /\ emitErr = [t \in Threads |-> "none"]
    /\ writeLock = "none"
    /\ written = [t \in Threads |-> 0]
    /\ writeErr = [t \in Threads |-> "none"]
    /\ callErr = [t \in Threads |-> "none"]
    /\ hCall = 0

\* The connection as Connect returned it: the system bus at its default
\* address.
Init ==
    /\ InitConnection
    /\ busType = "SystemBus"
    /\ address = <<>>
    /\ connectRes = "connected"

----------------------------------------------------------------------------
\* Connect (dbus.go:199-241). An address is a sequence of symbols: the
\* separators ":", "," and "=", the keys "path" and "abstract", and "x" for
\* any other run of characters.

\* Length of the addresses found in the environment.
MaxAddrLen == 5

Chars == {":", ",", "=", "path", "abstract", "x"}
Addresses == UNION {[1..n -> Chars] : n \in 0..MaxAddrLen}
BusTypes == {"SessionBus", "SystemBus", "OtherBus"}

\* Line 208: "unix:path=/var/run/dbus/system_bus_socket".
DefaultSystemAddress == <<"x", ":", "path", "=", "x">>

\* strings.Index: the 0-based position of the first c in str, or -1.
Index(str, c) ==
    IF \E i \in 1..Len(str) : str[i] = c
    THEN (CHOOSE i \in 1..Len(str) :
              str[i] = c /\ \A j \in 1..(i - 1) : str[j] # c) - 1
    ELSE -1

\* strings.Split: the pieces of str between the separators, at least one.
RECURSIVE Split(_, _)
Split(str, sep) ==
    LET i == Index(str, sep) IN
        IF i = -1 THEN <<str>>
        ELSE <<Take(str, i)>> \o Split(Drop(str, i + 1), sep)

\* Lines 202-213: the address of the bus, where the bus is known.
ResolveAddress(bus, env) ==
    IF bus = "SystemBus" /\ Len(env) = 0 THEN DefaultSystemAddress ELSE env

\* Lines 218 and 222: the list of pairs behind the transport.
AddressList(addr) ==
    LET transport == Take(addr, Index(addr, ":"))
    IN  Split(Drop(addr, Len(transport) + 1), ",")

\* Line 223: the pieces of every pair of the list.
AddressPairs(addr) ==
    [i \in DOMAIN AddressList(addr) |-> Split(AddressList(addr)[i], "=")]

\* Lines 228-233: whether a key the connection can dial is in addressMap.
HasDialKey(pairs) ==
    \E i \in DOMAIN pairs : pairs[i][1] \in {<<"path">>, <<"abstract">>}

\* A slice or index expression out of range: a run-time panic, which ends
\* the process unless the caller recovers.
SliceOutOfRange(addr) == Index(addr, ":") = -1
IndexOutOfRange(pairs) == \E i \in DOMAIN pairs : Len(pairs[i]) < 2

\* The ways Connect ends for a bus and the address variable of its
\* environment: an error it returns, a panic, or the result of net.Dial.
ConnectResults(bus, env) ==
    LET addr == ResolveAddress(bus, env) IN
        IF bus \notin {"SessionBus", "SystemBus"} THEN {"Unknown bus"}
        ELSE IF Len(addr) = 0 THEN {"Unknown bus address"}
        ELSE IF SliceOutOfRange(addr) THEN {"panic"}
        ELSE IF IndexOutOfRange(AddressPairs(addr)) THEN {"panic"}
        ELSE IF ~HasDialKey(AddressPairs(addr)) THEN {"Unknown address key"}
        ELSE {"DialError", "connected"}

Connect ==
    /\ connectRes = "none"
    /\ connectRes' \in ConnectResults(busType, address)
    /\ UNCHANGED <<busType, address, connState, readErr, decoded, mapAccess, emitErr,
                   lockVars, errVars, hCall>>
    /\ UNCHANGED <<pc, op, msg, ret, authErr, initRet, nextSerial, uniqName,
                   methodCallReplies, signalMatchRules, rxVars, wire, sockOut,
                   rlPc, cur, sigVars, log, nDisp, nSent>>

\* Connect called for any bus, with any address in the environment.
ConnectInit ==
    /\ InitConnection
    /\ busType \in BusTypes
    /\ address \in Addresses
    /\ connectRes = "none"

ConnectSpec == ConnectInit /\ [][Connect]_vars

----------------------------------------------------------------------------
\* Initialize (dbus.go:243-255), run by Main.

\* authState.Authenticate: the handshake ends with nil or with an error.
AuthResults == {"nil", "AuthenticationFailed"}

\* Initialize going on whatever _Auth returned.
InitAfterAuthIgnoresError(err) == "go"

\* Lines 249-251: Initialize returns the error of _Auth, or goes on.
InitAfterAuth(err) == IF err # "nil" THEN "return" ELSE "go"

\* Lines 244-251: the tables and the buffer are made, then _Auth runs.
InitializeAuth(t) ==
    /\ pc[t] = "auth"
    /\ \E err \in AuthResults :
        /\ authErr' = err
        /\ IF InitAfterAuth(err) = "return"
           THEN /\ pc' = [pc EXCEPT ![t] = "idle"]
                /\ initRet' = err
           ELSE /\ pc' = [pc EXCEPT ![t] = "go"]
                /\ initRet' = initRet
    /\ methodCallReplies' = <<>>
    /\ signalMatchRules' = <<>>
    /\ buffer' = <<>>
    /\ UNCHANGED auxVars
    /\ UNCHANGED <<op, msg, ret, nextSerial, uniqName, wire, sockOut, rxPc, rxMsg,
                   rlPc, cur, sigVars, log, nDisp, nSent>>

\* Line 252: go p._RunLoop().
InitializeGo(t) ==
    /\ pc[t] = "go"
    /\ rlPc' = "start"
    /\ pc' = [pc EXCEPT ![t] = "hello"]
    /\ UNCHANGED auxVars
    /\ UNCHANGED <<op, msg, ret, authErr, initRet, nextSerial, uniqName,
                   methodCallReplies, signalMatchRules, rxVars, wire, sockOut,
                   cur, sigVars, log, nDisp, nSent>>

----------------------------------------------------------------------------
\* Call (dbus.go:418-439) and _SendSync (dbus.go:326-338).

\* NewMessage: the next serial of the counter.
NewMessage == Message("METHOD_CALL", nextSerial, 0, "", "", <<>>)

\* Lines 419-431: the METHOD_CALL message Call builds.
BuildCall(t, member, args) ==
    /\ nextSerial <= MaxSerial
    /\ msg' = [msg EXCEPT ![t] = [NewMessage EXCEPT !.Iface = "org.freedesktop.DBus",
                                                    !.Member = member,
                                                    !.Params = args]]
    /\ nextSerial' = nextSerial + 1
    /\ ret' = [ret EXCEPT ![t] = <<>>]
    /\ pc' = [pc EXCEPT ![t] = "register"]

\* Line 340: _SendHello calls Hello; its result is dropped.
SendHello(t) ==
    /\ pc[t] = "hello"
    /\ BuildCall(t, "Hello", <<>>)
    /\ UNCHANGED auxVars
    /\ UNCHANGED <<op, authErr, initRet, uniqName, methodCallReplies,
                   signalMatchRules, rxVars, wire, sockOut, rlPc, cur, sigVars,
                   log, nDisp, nSent>>

\* A thread calls a method of the bus once Initialize has returned nil.
CallStart(t) ==
    /\ pc[t] = "idle"
    /\ initRet = "nil"
    /\ BuildCall(t, "Ping", <<>>)
    /\ op' = [op EXCEPT ![t] = "Call"]
    /\ UNCHANGED auxVars
    /\ UNCHANGED <<authErr, initRet, uniqName, methodCallReplies, signalMatchRules,
                   rxVars, wire, sockOut, rlPc, cur, sigVars, log, nDisp, nSent>>

\* Lines 327-332: the closure is stored under the serial of the call. The
\* closure is the callback of the caller t and the channel recvChan of this
\* _SendSync, named by the serial.
Register(m, seri, t) ==
    [s \in DOMAIN m \cup {seri} |-> IF s = seri THEN [thr |-> t, chan |-> seri] ELSE m[s]]

SendSyncRegister(t) ==
    /\ pc[t] = "register"
    /\ methodCallReplies' = Register(methodCallReplies, msg[t].serial, t)
    /\ mapAccess' = mapAccess \ {t}
    /\ pc' = [pc EXCEPT ![t] = "write"]
    /\ UNCHANGED <<connState, readErr, decoded, emitErr, connectVars, lockVars,
                   errVars, hCall>>
    /\ UNCHANGED <<op, msg, ret, authErr, initRet, nextSerial, uniqName,
                   signalMatchRules, rxVars, wire, sockOut, rlPc, cur, sigVars,
                   log, nDisp, nSent>>

\* conn.Write: the error it returns. A write to an open socket succeeds; a
\* write to a socket whose connection died succeeds or fails.
WriteResults == IF connState = "open" THEN {"nil"} ELSE {"nil", "EPIPE"}

\* conn.Write(buff): the bytes reach the stream when the write succeeds.
SocketWrite(out, bytes, werr) == IF werr = "nil" THEN out \o bytes ELSE out

\* A _SendSync that returns when the write failed.
SendSyncAfterWriteReturnsError(werr) == IF werr = "nil" THEN "wait" ELSE "return"

\* Lines 335-336: the result of conn.Write is dropped, and _SendSync goes on
\* to wait on recvChan.
SendSyncAfterWrite(werr) == "wait"

\* Lines 434 and 438: Call drops what _SendSync returned and returns nil.
CallResult(serr) == "nil"

\* Lines 334-335: the call is marshalled and written to the socket.
SendSyncWrite(t) ==
    /\ pc[t] = "write"
    /\ \E werr \in WriteResults :
        /\ sockOut' = SocketWrite(sockOut, Marshal(msg[t]), werr)
        /\ writeErr' = [writeErr EXCEPT ![t] = werr]
        /\ IF SendSyncAfterWrite(werr) = "wait"
           THEN /\ pc' = [pc EXCEPT ![t] = "wait"]
                /\ UNCHANGED callErr
           ELSE /\ pc' = [pc EXCEPT ![t] = "idle"]
                /\ callErr' = [callErr EXCEPT ![t] = CallResult(werr)]
    /\ UNCHANGED <<connState, readErr, decoded, mapAccess, emitErr, connectVars,
                   lockVars, hCall>>
    /\ UNCHANGED <<op, msg, ret, authErr, initRet, nextSerial, uniqName,
                   methodCallReplies, signalMatchRules, rxVars, wire, rlPc, cur,
                   sigVars, log, nDisp, nSent>>

----------------------------------------------------------------------------
\* Emit (dbus.go:442-459).

\* Lines 443-453: the SIGNAL message Emit builds, once Initialize has
\* returned nil.
EmitStart(t) ==
    /\ pc[t] = "idle"
    /\ initRet = "nil"
    /\ nextSerial <= MaxSerial
    /\ \E i \in Ifaces :
        msg' = [msg EXCEPT ![t] = [NewMessage EXCEPT !.Type = "SIGNAL",
                                                     !.Iface = i,
                                                     !.Member = "Changed"]]
    /\ nextSerial' = nextSerial + 1
    /\ pc' = [pc EXCEPT ![t] = "emit"]
    /\ op' = [op EXCEPT ![t] = "Emit"]
    /\ emitErr' = [emitErr EXCEPT ![t] = "none"]
    /\ UNCHANGED <<connState, readErr, decoded, mapAccess, connectVars, lockVars,
                   errVars, hCall>>
    /\ UNCHANGED <<ret, authErr, initRet, uniqName, methodCallReplies,
                   signalMatchRules, rxVars, wire, sockOut, rlPc, cur, sigVars,
                   log, nDisp, nSent>>

\* An Emit that reports success whatever the write returned.
EmitResultNil(werr) == "nil"

\* Lines 456-458: Emit returns the error of conn.Write.
EmitResult(werr) == werr

\* Lines 455-458: the signal is marshalled and written, and Emit returns.
EmitWrite(t) ==
    /\ pc[t] = "emit"
    /\ \E werr \in WriteResults :
        /\ sockOut' = SocketWrite(sockOut, Marshal(msg[t]), werr)
        /\ emitErr' = [emitErr EXCEPT ![t] = EmitResult(werr)]
    /\ pc' = [pc EXCEPT ![t] = "idle"]
    /\ UNCHANGED <<connState, readErr, decoded, mapAccess, connectVars, lockVars,
                   errVars, hCall>>
    /\ UNCHANGED <<op, msg, ret, authErr, initRet, nextSerial, uniqName,
                   methodCallReplies, signalMatchRules, rxVars, wire, rlPc, cur,
                   sigVars, log, nDisp, nSent>>

----------------------------------------------------------------------------
\* conn.Write (dbus.go:335 and 456) as the net package runs it: the write
\* lock of the descriptor is held for the whole call, the bytes of the buffer
\* go out in one or more pieces, and the lock is released.

\* A conn.Write that takes no lock.
WriteLockFreeAlways == TRUE

\* The write lock of the descriptor is free.
WriteLockFree == writeLock = "none"

\* The goroutine enters conn.Write with the marshalled message.
ConnWriteBegin(t) ==
    /\ pc[t] \in {"write", "emit"}
    /\ WriteLockFree
    /\ writeLock' = t
    /\ written' = [written EXCEPT ![t] = 0]
    /\ pc' = [pc EXCEPT ![t] = "writing"]
    /\ UNCHANGED <<connState, readErr, decoded, mapAccess, emitErr, connectVars,
                   errVars, hCall>>
    /\ UNCHANGED <<op, msg, ret, authErr, initRet, nextSerial, uniqName,
                   methodCallReplies, signalMatchRules, rxVars, wire, sockOut,
                   rlPc, cur, sigVars, log, nDisp, nSent>>

\* One piece of the buffer reaches the stream.
ConnWritePiece(t) ==
    /\ pc[t] = "writing"
    /\ written[t] < Len(Marshal(msg[t]))
    /\ \E n \in 1..(Len(Marshal(msg[t])) - written[t]) :
        /\ sockOut' = sockOut \o SubSeq(Marshal(msg[t]), written[t] + 1, written[t] + n)
        /\ written' = [written EXCEPT ![t] = written[t] + n]
    /\ UNCHANGED <<connState, readErr, decoded, mapAccess, emitErr, connectVars,
                   writeLock, errVars, hCall>>
    /\ UNCHANGED <<pc, op, msg, ret, authErr, initRet, nextSerial, uniqName,
                   methodCallReplies, signalMatchRules, rxVars, wire, rlPc, cur,
                   sigVars, log, nDisp, nSent>>

\* conn.Write returns: _SendSync goes on to wait for its reply (line 336),
\* Emit returns the error of the write (line 458).
ConnWriteEnd(t) ==
    /\ pc[t] = "writing"
    /\ written[t] = Len(Marshal(msg[t]))
    /\ writeLock' = "none"
    /\ writeErr' = [writeErr EXCEPT ![t] = "nil"]
    /\ IF op[t] = "Emit"
       THEN /\ pc' = [pc EXCEPT ![t] = "idle"]
            /\ emitErr' = [emitErr EXCEPT ![t] = EmitResult("nil")]
       ELSE /\ pc' = [pc EXCEPT ![t] = "wait"]
            /\ UNCHANGED emitErr
    /\ UNCHANGED <<connState, readErr, decoded, mapAccess, connectVars, written,
                   callErr, hCall>>
    /\ UNCHANGED <<op, msg, ret, authErr, initRet, nextSerial, uniqName,
                   methodCallReplies, signalMatchRules, rxVars, wire, sockOut,
                   rlPc, cur, sigVars, log, nDisp, nSent>>

----------------------------------------------------------------------------
\* Handle (dbus.go:473-476).

\* Handle without the local registration.
HandleRegisterNothing(rules, rule) == rules

\* Line 474: the (rule, handler) pair is appended; a handler is named by the
\* position of its registration.
HandleRegister(rules, rule) ==
    Append(rules, [mr |-> rule, proc |-> Len(rules) + 1])

\* Lines 473-474 for a rule drawn from rules. The rule, as the string the
\* AddMatch call will carry, is kept in msg[t] until that call is built.
HandleAppendOf(t, rules) ==
    /\ pc[t] = "idle"
    /\ initRet = "nil"
    /\ Len(signalMatchRules) < MaxRules
    /\ \E rule \in rules :
        /\ signalMatchRules' = HandleRegister(signalMatchRules, rule)
        /\ msg' = [msg EXCEPT ![t] = [NoMsg EXCEPT !.Params = MatchRuleToString(rule)]]
    /\ pc' = [pc EXCEPT ![t] = "addMatch"]
    /\ op' = [op EXCEPT ![t] = "Handle"]
    /\ UNCHANGED auxVars
    /\ UNCHANGED <<ret, authErr, initRet, nextSerial, uniqName, methodCallReplies,
                   rxVars, wire, sockOut, rlPc, cur, sigVars, log, nDisp, nSent>>

HandleAppend(t) == HandleAppendOf(t, RuleSet)

\* Line 475: the AddMatch call, with the rule as a string.
HandleAddMatch(t) ==
    /\ pc[t] = "addMatch"
    /\ BuildCall(t, "AddMatch", <<msg[t].Params>>)
    /\ UNCHANGED auxVars
    /\ UNCHANGED <<op, authErr, initRet, uniqName, methodCallReplies,
                   signalMatchRules, rxVars, wire, sockOut, rlPc, cur, sigVars,
                   log, nDisp, nSent>>

----------------------------------------------------------------------------
\* _RunLoop (dbus.go:275-284) and _MessageReceiver (dbus.go:264-273).

\* Lines 276-277: the channel is made and the receiver goroutine is started.
RunLoopStart ==
    /\ rlPc = "start"
    /\ rlPc' = "recv"
    /\ rxPc' = "pop"
    /\ UNCHANGED auxVars
    /\ UNCHANGED <<pc, op, msg, ret, authErr, initRet, nextSerial, uniqName,
                   methodCallReplies, signalMatchRules, buffer, rxMsg, wire,
                   sockOut, cur, sigVars, log, nDisp, nSent>>

\* A read that removes nothing from the buffer.
BufferReadNothing(buf, n) == buf

\* A read that empties the buffer.
BufferReadAll(buf, n) == <<>>

\* Line 314: p.buffer.Read(make([]byte, n)) removes the first n bytes.
BufferRead(buf, n) == Drop(buf, n)

\* _PopMessage (lines 309-316) as called at line 266: on success the first n
\* bytes leave the buffer and the message goes to msgChan; on an error the
\* receiver goes on to _UpdateBuffer.
PopMessage ==
    /\ rxPc = "pop"
    /\ LET r == Unmarshal(buffer) IN
        IF r.err = "nil"
        THEN /\ buffer' = BufferRead(buffer, r.n)
             /\ rxMsg' = r.msg
             /\ rxPc' = "send"
        ELSE /\ rxPc' = "update"
             /\ UNCHANGED <<buffer, rxMsg>>
    /\ UNCHANGED <<envVars, readErr>>
    /\ UNCHANGED <<pc, op, msg, ret, authErr, initRet, nextSerial, uniqName,
                   methodCallReplies, signalMatchRules, wire, sockOut, rlPc, cur,
                   sigVars, log, nDisp, nSent>>

\* The bytes of a read put in front of the buffer.
BufferWriteInFront(buf, bytes) == bytes \o buf

\* Line 322: p.buffer.Write(buff[0:n]).
BufferWrite(buf, bytes) == buf \o bytes

\* _UpdateBuffer (lines 318-324): conn.Read blocks until bytes have arrived
\* and returns between one byte and all of them (at most the size of buff);
\* once the connection has died and its bytes are read, it returns no byte
\* and an error. The bytes are appended to the buffer; the error is returned
\* to _MessageReceiver, which drops it (line 271).
UpdateBuffer ==
    /\ rxPc = "update"
    /\ IF wire # <<>>
       THEN /\ \E n \in 1..Min(Len(wire), ReadBufSize) :
                /\ buffer' = BufferWrite(buffer, Take(wire, n))
                /\ wire' = Drop(wire, n)
            /\ readErr' = "nil"
       ELSE /\ connState = "closed"
            /\ buffer' = BufferWrite(buffer, <<>>)
            /\ readErr' = "EOF"
            /\ UNCHANGED wire
    /\ rxPc' = "pop"
    /\ UNCHANGED envVars
    /\ UNCHANGED <<pc, op, msg, ret, authErr, initRet, nextSerial, uniqName,
                   methodCallReplies, signalMatchRules, rxMsg, sockOut, rlPc, cur,
                   sigVars, log, nDisp, nSent>>

\* A run loop that receives the next message whatever it is doing.
RunLoopAtSelectAlways == TRUE

\* Lines 278-283: the run loop is at its select only between two calls of
\* _MessageDispatch, each of which it runs to its end.
RunLoopAtSelect == rlPc = "recv"

\* Lines 268 and 280: msgChan is unbuffered, so the send of the receiver and
\* the receive of the run loop are one step; _MessageDispatch(msg) begins.
MsgChanHandoff ==
    /\ rxPc = "send"
    /\ RunLoopAtSelect
    /\ cur' = rxMsg
    /\ nDisp' = nDisp + 1
    /\ rlPc' = "dispatch"
    /\ rxPc' = "pop"
    /\ rxMsg' = NoMsg
    /\ UNCHANGED auxVars
    /\ UNCHANGED <<pc, op, msg, ret, authErr, initRet, nextSerial, uniqName,
                   methodCallReplies, signalMatchRules, buffer, wire, sockOut,
                   sigVars, log, nSent>>

----------------------------------------------------------------------------
\* _MessageDispatch (dbus.go:286-307).

\* The reply looked up under its own serial instead of its reply serial.
ReplyKeyOwnSerial(m) == m.serial

\* Line 293: the key the reply is looked up under.
ReplyKey(m) == m.replySerial

\* A lookup that serves the replies in the order of the calls only.
ReplyLookupOldestOnly(rs) ==
    /\ rs \in DOMAIN methodCallReplies
    /\ \A s \in DOMAIN methodCallReplies : rs <= s

\* Line 294: the lookup in methodCallReplies.
ReplyLookup(rs) == rs \in DOMAIN methodCallReplies

\* The table cleared on a reply instead of one entry deleted.
DeleteEveryEntry(m, rs) == [s \in {} |-> m[s]]

\* The entry left in the table after its reply.
DeleteNoEntry(m, rs) == m

\* Line 296: delete(p.methodCallReplies, rs).
DeleteEntry(m, rs) == [s \in DOMAIN m \ {rs} |-> m[s]]

\* A callback that stores nothing.
CallCallbackDropsParams(reply) == <<>>

\* Line 435: the callback of Call stores the arguments of the reply.
CallCallback(reply) == reply.Params

\* Every handler invoked, whatever its rule.
ShouldInvokeAlways(handler, m) == TRUE

\* Line 300: the condition under which a handler is invoked.
ShouldInvoke(handler, m) == Match(handler.mr, m)

\* One invocation of a reply callback or of a signal handler, as recorded in
\* the log: the message it was given, and the keys of methodCallReplies at
\* that moment.
Invocation(kind, key, m) ==
    [seq |-> nDisp, kind |-> kind, key |-> key, msg |-> m,
     pend |-> DOMAIN methodCallReplies]

\* Lines 291-295 and 304-305: the switch on the message type. A METHOD_RETURN
\* with a pending serial runs the first half of the closure (line 330, the
\* callback); a SIGNAL starts the range over the handlers; an ERROR is
\* printed; any other message is dropped.
DispatchSwitch ==
    /\ rlPc = "dispatch"
    /\ mapAccess' = mapAccess \ {RunLoop}
    /\ IF cur.Type = "METHOD_RETURN" /\ ReplyLookup(ReplyKey(cur))
       THEN /\ ret' = [ret EXCEPT ![methodCallReplies[ReplyKey(cur)].thr] =
                                        CallCallback(cur)]
            /\ log' = Append(log, Invocation("reply", ReplyKey(cur), cur))
            /\ rlPc' = "replySend"
            /\ UNCHANGED sigVars
       ELSE IF cur.Type = "SIGNAL" /\ Len(signalMatchRules) > 0
       THEN /\ sigLen' = Len(signalMatchRules)
            /\ sigIdx' = 1
            /\ rlPc' = "range"
            /\ UNCHANGED <<ret, log>>
       ELSE /\ rlPc' = "recv"
            /\ UNCHANGED <<ret, log, sigVars>>
    /\ UNCHANGED <<connState, readErr, decoded, emitErr, connectVars, lockVars,
                   errVars, hCall>>
    /\ UNCHANGED <<pc, op, msg, authErr, initRet, nextSerial, uniqName,
                   methodCallReplies, signalMatchRules, rxVars, wire, sockOut, cur,
                   nDisp, nSent>>

\* Lines 331 and 336: recvChan is unbuffered, so the send inside the closure
\* and the receive of the blocked _SendSync are one step. The caller returns
\* from _SendSync with nil (line 337) and from Call (line 438); when the call was the Hello call
\* of Initialize, Initialize returns nil (line 254).
RecvChanHandoff(t) ==
    /\ rlPc = "replySend"
    /\ pc[t] = "wait"
    /\ methodCallReplies[ReplyKey(cur)].chan = msg[t].serial
    /\ rlPc' = "delete"
    /\ pc' = [pc EXCEPT ![t] = "idle"]
    /\ initRet' = IF op[t] = "Initialize" THEN "nil" ELSE initRet
    /\ callErr' = [callErr EXCEPT ![t] = CallResult("nil")]
    /\ UNCHANGED <<connState, readErr, decoded, mapAccess, emitErr, connectVars,
                   lockVars, writeErr, hCall>>
    /\ UNCHANGED <<op, msg, ret, authErr, nextSerial, uniqName, methodCallReplies,
                   signalMatchRules, rxVars, wire, sockOut, cur, sigVars, log,
                   nDisp, nSent>>

\* Line 296: the entry is deleted once the closure has returned.
DispatchDelete ==
    /\ rlPc = "delete"
    /\ methodCallReplies' = DeleteEntry(methodCallReplies, ReplyKey(cur))
    /\ mapAccess' = mapAccess \ {RunLoop}
    /\ rlPc' = "recv"
    /\ UNCHANGED <<connState, readErr, decoded, emitErr, connectVars, lockVars,
                   errVars, hCall>>
    /\ UNCHANGED <<pc, op, msg, ret, authErr, initRet, nextSerial, uniqName,
                   signalMatchRules, rxVars, wire, sockOut, cur, sigVars, log,
                   nDisp, nSent>>

\* Lines 299-303: one iteration of the range over the slice as it was when
\* the loop began.
DispatchRange ==
    /\ rlPc = "range"
    /\ LET handler == signalMatchRules[sigIdx] IN
        log' = IF ShouldInvoke(handler, cur)
               THEN Append(log, Invocation("signal", handler.proc, cur))
               ELSE log
    /\ IF sigIdx < sigLen
       THEN /\ sigIdx' = sigIdx + 1
            /\ UNCHANGED <<rlPc, sigLen>>
       ELSE /\ rlPc' = "recv"
            /\ UNCHANGED sigVars
    /\ UNCHANGED auxVars
    /\ UNCHANGED <<pc, op, msg, ret, authErr, initRet, nextSerial, uniqName,
                   methodCallReplies, signalMatchRules, rxVars, wire, sockOut, cur,
                   nDisp, nSent>>

----------------------------------------------------------------------------
\* A signal handler that calls a method of the bus. handler.proc (line 301)
\* runs on the goroutine of _RunLoop, and so do the Call it makes and the
\* _SendSync of that Call.

\* The METHOD_CALL message of the handler's Call.
HandlerCall == Message("METHOD_CALL", hCall, 0, "org.freedesktop.DBus", "Ping", <<>>)

\* Line 301 and lines 419-431: the matching handler is invoked and calls
\* Call, which builds its message.
DispatchRangeCall ==
    /\ rlPc = "range"
    /\ ShouldInvoke(signalMatchRules[sigIdx], cur)
    /\ nextSerial <= MaxSerial
    /\ log' = Append(log, Invocation("signal", signalMatchRules[sigIdx].proc, cur))
    /\ hCall' = NewMessage.serial
    /\ nextSerial' = nextSerial + 1
    /\ rlPc' = "hRegister"
    /\ UNCHANGED <<connState, readErr, decoded, mapAccess, emitErr, connectVars,
                   lockVars, errVars>>
    /\ UNCHANGED <<pc, op, msg, ret, authErr, initRet, uniqName, methodCallReplies,
                   signalMatchRules, rxVars, wire, sockOut, cur, sigVars, nDisp,
                   nSent>>

\* Lines 327-332 on the goroutine of the run loop.
HandlerSendSyncRegister ==
    /\ rlPc = "hRegister"
    /\ methodCallReplies' = Register(methodCallReplies, hCall, RunLoop)
    /\ rlPc' = "hWrite"
    /\ UNCHANGED auxVars
    /\ UNCHANGED <<pc, op, msg, ret, authErr, initRet, nextSerial, uniqName,
                   signalMatchRules, rxVars, wire, sockOut, cur, sigVars, log,
                   nDisp, nSent>>

\* Lines 334-336 on the goroutine of the run loop: the call is written and
\* the goroutine waits on recvChan.
HandlerSendSyncWrite ==
    /\ rlPc = "hWrite"
    /\ \E werr \in WriteResults : sockOut' = SocketWrite(sockOut, Marshal(HandlerCall), werr)
    /\ rlPc' = "hWait"
    /\ UNCHANGED auxVars
    /\ UNCHANGED <<pc, op, msg, ret, authErr, initRet, nextSerial, uniqName,
                   methodCallReplies, signalMatchRules, rxVars, wire, cur, sigVars,
                   log, nDisp, nSent>>

----------------------------------------------------------------------------
\* The bus daemon.

\* A message of the daemon; its own serial is the count of messages it sent.
DaemonMessage(ty, rs, iface, member, params) ==
    Message(ty, nSent + 1, rs, iface, member, params)

\* The daemon writes bytes to the connection while it is alive.
DaemonWriteBytes(bytes) ==
    /\ nSent < MaxInbound
    /\ connState = "open"
    /\ wire' = wire \o bytes
    /\ nSent' = nSent + 1
    /\ UNCHANGED auxVars
    /\ UNCHANGED <<pc, op, msg, ret, authErr, initRet, nextSerial, uniqName,
                   methodCallReplies, signalMatchRules, rxVars, sockOut, rlPc, cur,
                   sigVars, log, nDisp>>

DaemonWrite(m) == DaemonWriteBytes(Marshal(m))

\* The argument list of the daemon's next reply: every reply carries a value
\* of its own, so that two replies are told apart by their arguments.
ReplyParams == <<"value", nSent + 1>>

\* A METHOD_RETURN for a call the daemon has received (possibly one it has
\* answered before).
DaemonReturn ==
    \E c \in CallsWritten :
        DaemonWrite(DaemonMessage("METHOD_RETURN", c.serial, "", "", ReplyParams))

\* An ERROR for a call the daemon has received.
DaemonError ==
    \E c \in CallsWritten :
        DaemonWrite(DaemonMessage("ERROR", c.serial, "", "", <<"failed">>))

\* A signal, once the connection has said Hello.
DaemonSignalOf(ifaces) ==
    /\ CallsWritten # {}
    /\ \E i \in ifaces :
        DaemonWrite(DaemonMessage("SIGNAL", 0, i, "Changed", <<>>))

DaemonSignal == DaemonSignalOf(Ifaces)

\* Message types _MessageDispatch has no case for: a METHOD_CALL (type code
\* 1) and a type code outside the protocol.
OtherTypes == {"METHOD_CALL", "UNKNOWN"}

\* A message of a type the connection does not serve, once it has said Hello.
DaemonOther ==
    /\ CallsWritten # {}
    /\ \E ty \in OtherTypes :
        DaemonWrite(DaemonMessage(ty, 0, "I1", "Changed", <<>>))

\* Bytes that are not the start of any message.
Garbage == <<[k |-> "bad", m |-> NoMsg]>>

\* The stream is corrupted: bytes that frame no message arrive.
DaemonGarbage ==
    /\ CallsWritten # {}
    /\ DaemonWriteBytes(Garbage)

\* The connection dies: the daemon writes no more, the bytes it wrote can
\* still be read, and then conn.Read fails.
ConnClose ==
    /\ authErr = "nil"
    /\ connState = "open"
    /\ connState' = "closed"
    /\ UNCHANGED <<readErr, decoded, mapAccess, emitErr, connectVars, lockVars,
                   errVars, hCall>>
    /\ UNCHANGED <<pc, op, msg, ret, authErr, initRet, nextSerial, uniqName,
                   methodCallReplies, signalMatchRules, rxVars, wire, sockOut,
                   rlPc, cur, sigVars, log, nDisp, nSent>>

----------------------------------------------------------------------------
Next ==
    \/ \E t \in Threads : InitializeAuth(t)
    \/ \E t \in Threads : InitializeGo(t)
    \/ \E t \in Threads : SendHello(t)
    \/ \E t \in Threads : CallStart(t)
    \/ \E t \in Threads : SendSyncRegister(t)
    \/ \E t \in Threads : SendSyncWrite(t)
    \/ \E t \in Threads : HandleAppend(t)
    \/ \E t \in Threads : HandleAddMatch(t)
    \/ RunLoopStart
    \/ PopMessage /\ UNCHANGED decoded
    \/ UpdateBuffer /\ UNCHANGED decoded
    \/ MsgChanHandoff
    \/ DispatchSwitch
    \/ \E t \in Threads : RecvChanHandoff(t)
    \/ DispatchDelete
    \/ DispatchRange
    \/ DaemonReturn
    \/ DaemonError
    \/ DaemonSignal

Spec == Init /\ [][Next]_vars

\* The steps of each goroutine. A goroutine that can run is eventually run.
ReceiverStep == RunLoopStart \/ ((PopMessage \/ UpdateBuffer) /\ UNCHANGED decoded)
RunLoopStep == MsgChanHandoff \/ DispatchSwitch \/ DispatchDelete \/ DispatchRange
ThreadStep(t) ==
    \/ InitializeAuth(t) \/ InitializeGo(t) \/ SendHello(t)
    \/ SendSyncRegister(t) \/ SendSyncWrite(t)
    \/ HandleAddMatch(t) \/ RecvChanHandoff(t)

\* The connection with a daemon that answers calls and emits signals of one
\* interface, and an application that registers handlers for every signal.
AnswerNext ==
    \/ \E t \in Threads : InitializeAuth(t)
    \/ \E t \in Threads : InitializeGo(t)
    \/ \E t \in Threads : SendHello(t)
    \/ \E t \in Threads : CallStart(t)
    \/ \E t \in Threads : SendSyncRegister(t)
    \/ \E t \in Threads : SendSyncWrite(t)
    \/ \E t \in Threads : HandleAppendOf(t, {[Iface |-> ""]})
    \/ \E t \in Threads : HandleAddMatch(t)
    \/ RunLoopStart
    \/ PopMessage /\ UNCHANGED decoded
    \/ UpdateBuffer /\ UNCHANGED decoded
    \/ MsgChanHandoff
    \/ DispatchSwitch
    \/ \E t \in Threads : RecvChanHandoff(t)
    \/ DispatchDelete
    \/ DispatchRange
    \/ DaemonReturn
    \/ DaemonSignalOf({"I1"})

FairSpec ==
    /\ Init /\ [][AnswerNext]_vars
    /\ WF_vars(ReceiverStep)
    /\ WF_vars(RunLoopStep)
    /\ \A t \in Threads : WF_vars(ThreadStep(t))

\* Calls on a connection that can die: the daemon answers calls until the
\* connection is closed.
DeathNext ==
    \/ \E t \in Threads : InitializeAuth(t)
    \/ \E t \in Threads : InitializeGo(t)
    \/ \E t \in Threads : SendHello(t)
    \/ \E t \in Threads : CallStart(t)
    \/ \E t \in Threads : SendSyncRegister(t)
    \/ \E t \in Threads : SendSyncWrite(t)
    \/ RunLoopStart
    \/ PopMessage /\ UNCHANGED decoded
    \/ UpdateBuffer /\ UNCHANGED decoded
    \/ MsgChanHandoff
    \/ DispatchSwitch
    \/ \E t \in Threads : RecvChanHandoff(t)
    \/ DispatchDelete
    \/ DaemonReturn
    \/ ConnClose

DeathSpec ==
    /\ Init /\ [][DeathNext]_vars
    /\ WF_vars(ReceiverStep)
    /\ WF_vars(RunLoopStep)
    /\ \A t \in Threads : WF_vars(ThreadStep(t))

\* Calls and emitted signals on a connection that can die.
EmitNext ==
    \/ \E t \in Threads : InitializeAuth(t)
    \/ \E t \in Threads : InitializeGo(t)
    \/ \E t \in Threads : SendHello(t)
    \/ \E t \in Threads : CallStart(t)
    \/ \E t \in Threads : SendSyncRegister(t)
    \/ \E t \in Threads : SendSyncWrite(t)
    \/ \E t \in Threads : EmitStart(t)
    \/ \E t \in Threads : EmitWrite(t)
    \/ RunLoopStart
    \/ PopMessage /\ UNCHANGED decoded
    \/ UpdateBuffer /\ UNCHANGED decoded
    \/ MsgChanHandoff
    \/ DispatchSwitch
    \/ \E t \in Threads : RecvChanHandoff(t)
    \/ DispatchDelete
    \/ DaemonReturn
    \/ ConnClose

EmitSpec == Init /\ [][EmitNext]_vars

\* Operations on methodCallReplies that take time. No lock is held around
\* them, so a goroutine can be inside one while another begins one.
Contexts == Threads \cup {RunLoop}

\* The goroutine is at an operation on the map: the insert of line 329, the
\* lookup of line 294 or the delete of line 296.
AtMapOperation(ctx) ==
    IF ctx = RunLoop
    THEN (rlPc = "dispatch" /\ cur.Type = "METHOD_RETURN") \/ rlPc = "delete"
    ELSE pc[ctx] = "register"

\* The goroutine begins its operation on the map.
MapEnter(ctx) ==
    /\ AtMapOperation(ctx)
    /\ ctx \notin mapAccess
    /\ mapAccess' = mapAccess \cup {ctx}
    /\ UNCHANGED <<connState, readErr, decoded, emitErr, connectVars, lockVars,
                   errVars, hCall>>
    /\ UNCHANGED <<pc, op, msg, ret, authErr, initRet, nextSerial, uniqName,
                   methodCallReplies, signalMatchRules, rxVars, wire, sockOut,
                   rlPc, cur, sigVars, log, nDisp, nSent>>

\* Two goroutines are inside operations on the map: a data race. Beside the
\* results of the operations in either order, the run-time can end the
\* process with a fatal error (concurrent map read and map write) ...
RaceFatal ==
    /\ Cardinality(mapAccess) > 1
    /\ pc' = [t \in Threads |-> "crashed"]
    /\ rxPc' = "crashed"
    /\ rlPc' = "crashed"
    /\ UNCHANGED auxVars
    /\ UNCHANGED <<op, msg, ret, authErr, initRet, nextSerial, uniqName,
                   methodCallReplies, signalMatchRules, buffer, rxMsg, wire,
                   sockOut, cur, sigVars, log, nDisp, nSent>>

\* ... or an insert can be lost.
RaceLostInsert(t) ==
    /\ pc[t] = "register"
    /\ t \in mapAccess
    /\ Cardinality(mapAccess) > 1
    /\ mapAccess' = mapAccess \ {t}
    /\ pc' = [pc EXCEPT ![t] = "write"]
    /\ UNCHANGED <<connState, readErr, decoded, emitErr, connectVars, lockVars,
                   errVars, hCall>>
    /\ UNCHANGED <<op, msg, ret, authErr, initRet, nextSerial, uniqName,
                   methodCallReplies, signalMatchRules, rxVars, wire, sockOut,
                   rlPc, cur, sigVars, log, nDisp, nSent>>

\* Calls whose operations on methodCallReplies are not atomic: each is
\* begun by MapEnter and completed by the step of the operation.
RaceNext ==
    \/ \E t \in Threads : InitializeAuth(t)
    \/ \E t \in Threads : InitializeGo(t)
    \/ \E t \in Threads : SendHello(t)
    \/ \E t \in Threads : CallStart(t)
    \/ \E ctx \in Contexts : MapEnter(ctx)
    \/ \E t \in Threads : t \in mapAccess /\ SendSyncRegister(t)
    \/ \E t \in Threads : SendSyncWrite(t)
    \/ RunLoopStart
    \/ PopMessage /\ UNCHANGED decoded
    \/ UpdateBuffer /\ UNCHANGED decoded
    \/ MsgChanHandoff
    \/ (AtMapOperation(RunLoop) => RunLoop \in mapAccess) /\ DispatchSwitch
    \/ \E t \in Threads : RecvChanHandoff(t)
    \/ RunLoop \in mapAccess /\ DispatchDelete
    \/ DaemonReturn
    \/ RaceFatal
    \/ \E t \in Threads : RaceLostInsert(t)

RaceSpec == Init /\ [][RaceNext]_vars

\* Calls, emitted signals and handler registrations of two threads, with
\* every conn.Write in its steps.
WriteNext ==
    \/ \E t \in Threads : InitializeAuth(t)
    \/ \E t \in Threads : InitializeGo(t)
    \/ \E t \in Threads : SendHello(t)
    \/ \E t \in Threads : CallStart(t)
    \/ \E t \in Threads : EmitStart(t)
    \/ \E t \in Threads : HandleAppendOf(t, {[Iface |-> ""]})
    \/ \E t \in Threads : HandleAddMatch(t)
    \/ \E t \in Threads : SendSyncRegister(t)
    \/ \E t \in Threads : ConnWriteBegin(t)
    \/ \E t \in Threads : ConnWritePiece(t)
    \/ \E t \in Threads : ConnWriteEnd(t)
    \/ RunLoopStart
    \/ PopMessage /\ UNCHANGED decoded
    \/ UpdateBuffer /\ UNCHANGED decoded
    \/ MsgChanHandoff
    \/ DispatchSwitch
    \/ \E t \in Threads : RecvChanHandoff(t)
    \/ DispatchDelete
    \/ DaemonReturn

WriteSpec == Init /\ [][WriteNext]_vars

\* The connection with handlers for every signal, each of which returns at
\* once or calls a method of the bus.
HandlerNext ==
    \/ \E t \in Threads : InitializeAuth(t)
    \/ \E t \in Threads : InitializeGo(t)
    \/ \E t \in Threads : SendHello(t)
    \/ \E t \in Threads : SendSyncRegister(t)
    \/ \E t \in Threads : SendSyncWrite(t)
    \/ \E t \in Threads : HandleAppendOf(t, {[Iface |-> ""]})
    \/ \E t \in Threads : HandleAddMatch(t)
    \/ RunLoopStart
    \/ PopMessage /\ UNCHANGED decoded
    \/ UpdateBuffer /\ UNCHANGED decoded
    \/ MsgChanHandoff
    \/ DispatchSwitch
    \/ \E t \in Threads : RecvChanHandoff(t)
    \/ DispatchDelete
    \/ DispatchRange
    \/ DispatchRangeCall
    \/ HandlerSendSyncRegister
    \/ HandlerSendSyncWrite
    \/ DaemonReturn
    \/ DaemonSignalOf({"I1"})

HandlerSpec == Init /\ [][HandlerNext]_vars

\* The receiver with the count of the messages it decoded since its last
\* socket read.
PopMessageCounted ==
    PopMessage /\ decoded' = IF rxPc' = "send" THEN decoded + 1 ELSE decoded
UpdateBufferCounted == UpdateBuffer /\ decoded' = 0

\* The connection on a stream that can carry messages of any type and
\* corrupted bytes, and that can die; the application initializes the
\* connection and registers handlers for the signals of one interface.
WireNext ==
    \/ \E t \in Threads : InitializeAuth(t)
    \/ \E t \in Threads : InitializeGo(t)
    \/ \E t \in Threads : SendHello(t)
    \/ \E t \in Threads : SendSyncRegister(t)
    \/ \E t \in Threads : SendSyncWrite(t)
    \/ \E t \in Threads : HandleAppendOf(t, {[Iface |-> "I1"]})
    \/ \E t \in Threads : HandleAddMatch(t)
    \/ RunLoopStart
    \/ PopMessageCounted
    \/ UpdateBufferCounted
    \/ MsgChanHandoff
    \/ DispatchSwitch
    \/ \E t \in Threads : RecvChanHandoff(t)
    \/ DispatchDelete
    \/ DispatchRange
    \/ DaemonReturn
    \/ DaemonSignal
    \/ DaemonOther
    \/ DaemonGarbage
    \/ ConnClose

WireSpec == Init /\ [][WireNext]_vars

----------------------------------------------------------------------------
\* Properties.

\* The call of thread t has returned: t built a call and is back from Call.
Returned(t) == pc[t] = "idle" /\ msg[t].Type = "METHOD_CALL"

\* The invocations made for the message being (or last) dispatched.
CurInvocations == SelectSeq(log, LAMBDA e : e.seq = nDisp)

ReplyInvocations(s) == SelectSeq(log, LAMBDA e : e.kind = "reply" /\ e.key = s)

\* C1: dispatching a METHOD_RETURN with reply_serial S1 invokes only the
\* callback registered under S1 (only the caller that registered S1 gets the
\* arguments and is released), and removes exactly the S1 entry of
\* methodCallReplies: every other entry is still there afterwards.
C1_SerialCorrelation ==
    [][/\ (log' # log /\ cur.Type = "METHOD_RETURN") =>
            /\ \E t \in Threads :
                /\ msg[t].serial = cur.replySerial
                /\ pc[t] \in {"write", "wait"}
                /\ ret'[t] = cur.Params
                /\ \A u \in Threads \ {t} : ret'[u] = ret[u]
            /\ log' = Append(log, [seq |-> nDisp, kind |-> "reply",
                                   key |-> cur.replySerial, msg |-> cur,
                                   pend |-> DOMAIN methodCallReplies])
       /\ \A t \in Threads : (pc[t] = "wait" /\ pc'[t] # "wait") =>
            /\ cur.Type = "METHOD_RETURN"
            /\ msg[t].serial = cur.replySerial
       /\ (DOMAIN methodCallReplies \ DOMAIN methodCallReplies' # {}) =>
            /\ cur.Type = "METHOD_RETURN"
            /\ DOMAIN methodCallReplies' = DOMAIN methodCallReplies \ {cur.replySerial}
            /\ \A s \in DOMAIN methodCallReplies' :
                   methodCallReplies'[s] = methodCallReplies[s]
      ]_vars

\* Witness of C1: a reply was delivered while two calls were outstanding; its
\* entry is gone and the other entry is still in the table.
C1_Witness ==
    /\ rlPc = "recv"
    /\ \E i \in 1..Len(log) :
        /\ log[i].kind = "reply"
        /\ log[i].seq = nDisp
        /\ Cardinality(log[i].pend) >= 2
        /\ log[i].key \notin DOMAIN methodCallReplies
        /\ log[i].pend \ {log[i].key} \subseteq DOMAIN methodCallReplies

\* C2: Call does not return before a METHOD_RETURN whose reply_serial is the
\* serial of the call has been dispatched to its callback, and what Call
\* returns is the argument list of that reply.
C2_CallReturnsItsReply ==
    \A t \in Threads : Returned(t) =>
        \E i \in 1..Len(log) :
            /\ log[i].kind = "reply"
            /\ log[i].msg.Type = "METHOD_RETURN"
            /\ log[i].msg.replySerial = msg[t].serial
            /\ ret[t] = log[i].msg.Params

\* Witness of C2: a thread is back from a Call with the arguments of a reply,
\* while the other thread is still inside a call.
C2_Witness ==
    \E t \in Threads, u \in Threads :
        /\ Returned(t) /\ op[t] = "Call" /\ ret[t] # <<>>
        /\ pc[u] = "wait"

\* C3: an ERROR whose reply_serial is in methodCallReplies is dispatched like
\* a METHOD_RETURN: its callback is invoked with the message (and then the
\* entry is removed and the blocked Call returns).
C3_ErrorDelivered ==
    [][(/\ rlPc = "dispatch" /\ rlPc' # "dispatch"
        /\ cur.Type = "ERROR"
        /\ cur.replySerial \in DOMAIN methodCallReplies) =>
            /\ rlPc' = "replySend"
            /\ Len(log') = Len(log) + 1
            /\ log'[Len(log')].msg = cur
      ]_vars

\* C4: the callback of an entry of methodCallReplies is invoked at most once:
\* a second message with the same reply_serial invokes nothing.
C4_CallbackAtMostOnce ==
    \A s \in 1..MaxSerial : Len(ReplyInvocations(s)) <= 1

\* Witness of C4: a second METHOD_RETURN for an answered serial went through
\* the dispatch, and the callback had been invoked by an earlier message.
C4_Witness ==
    /\ rlPc = "recv"
    /\ cur.Type = "METHOD_RETURN"
    /\ \E i \in 1..Len(log) :
        /\ log[i].kind = "reply"
        /\ log[i].key = cur.replySerial
        /\ log[i].seq < nDisp

\* C5: dispatching a METHOD_RETURN whose reply_serial is not a key of
\* methodCallReplies invokes no callback and no handler, leaves
\* methodCallReplies and signalMatchRules as they are, and the run loop goes
\* back to receiving the next message.
C5_UnknownSerialDropped ==
    [][(/\ rlPc = "dispatch" /\ rlPc' # "dispatch"
        /\ cur.Type = "METHOD_RETURN"
        /\ cur.replySerial \notin DOMAIN methodCallReplies) =>
            /\ rlPc' = "recv"
            /\ log' = log
            /\ ret' = ret
            /\ methodCallReplies' = methodCallReplies
            /\ signalMatchRules' = signalMatchRules
      ]_vars

\* Witness of C5: a METHOD_RETURN with an unknown serial went through the
\* dispatch with no invocation, and the run loop is receiving again.
C5_Witness ==
    /\ rlPc = "recv"
    /\ cur.Type = "METHOD_RETURN"
    /\ cur.replySerial \notin DOMAIN methodCallReplies
    /\ CurInvocations = <<>>

\* The positions of the first n handlers whose rule matches m, ascending.
MatchingHandlers(n, m) ==
    SelectSeq([i \in 1..n |-> i], LAMBDA i : Match(signalMatchRules[i].mr, m))

\* C6: for an incoming SIGNAL, the handlers invoked are exactly the handlers
\* of the matching rules among those registered when the loop over the
\* handlers began, each once, in the order of registration; handlers of rules
\* that do not match are not invoked.
C6_SignalHandlersInOrder ==
    [][(/\ cur.Type = "SIGNAL"
        /\ rlPc \in {"dispatch", "range"}
        /\ rlPc' = "recv") =>
            LET n == IF rlPc = "range" THEN sigLen ELSE Len(signalMatchRules)
                want == MatchingHandlers(n, cur)
                got == SelectSeq(log', LAMBDA e : e.seq = nDisp)
            IN  /\ Len(got) = Len(want)
                /\ \A j \in 1..Len(got) :
                    /\ got[j].kind = "signal"
                    /\ got[j].key = signalMatchRules[want[j]].proc
                    /\ got[j].msg = cur
      ]_vars

\* Witness of C6: a signal went through the dispatch and the handlers of two
\* rules were invoked for it, the first registered first.
C6_Witness ==
    /\ rlPc = "recv"
    /\ cur.Type = "SIGNAL"
    /\ Len(CurInvocations) = 2
    /\ CurInvocations[1].key = 1
    /\ CurInvocations[2].key = 2

\* The AddMatch calls written to the socket.
AddMatchWritten == {c \in CallsWritten : c.Member = "AddMatch"}

\* C7: whenever the AddMatch call for a rule has been written to the socket,
\* the rule is in signalMatchRules already.
C7_RegisteredBeforeAddMatch ==
    \A c \in AddMatchWritten :
        \E i \in 1..Len(signalMatchRules) :
            MatchRuleToString(signalMatchRules[i].mr) = c.Params[1]

\* Witness of C7: an AddMatch call is on the socket.
C7_Witness == AddMatchWritten # {}

\* C8: Initialize runs the authentication first. If it fails, Initialize
\* returns that error, the run loop is never started and nothing is written
\* to the socket; if it succeeds, the run loop is started before the Hello
\* call is built and sent.
C8_AuthFirst ==
    /\ authErr = "none" =>
        /\ rlPc = "notStarted" /\ rxPc = "notStarted" /\ sockOut = <<>>
        /\ initRet = "none"
    /\ authErr \notin {"none", "nil"} =>
        /\ initRet = authErr
        /\ pc[Main] = "idle"
        /\ rlPc = "notStarted" /\ rxPc = "notStarted"
        /\ sockOut = <<>> /\ nextSerial = 1
    /\ (sockOut # <<>> \/ pc[Main] \in {"register", "write", "wait"}) =>
        /\ authErr = "nil"
        /\ rlPc # "notStarted"

\* Witness of C8: the authentication failed and Initialize returned the error.
C8_Witness == authErr = "AuthenticationFailed" /\ initRet = "AuthenticationFailed"

\* The serial of the Hello call: the first serial of the connection.
HelloReplies == ReplyInvocations(1)

\* C9: once Initialize has returned nil, uniqName is the string argument of
\* the METHOD_RETURN that answered the Hello call.
C9_UniqueNameSet ==
    initRet = "nil" =>
        /\ Len(HelloReplies) > 0
        /\ uniqName = HelloReplies[1].msg.Params[1]

\* The messages that have arrived and are not dispatched yet, in wire order.
InFlight ==
    LET bytes == buffer \o wire
        hdrs == SelectSeq(bytes, LAMBDA b : b.k = "hdr")
    IN  (IF rlPc \in {"dispatch", "replySend"} THEN <<cur>> ELSE <<>>)
        \o (IF rxPc = "send" THEN <<rxMsg>> ELSE <<>>)
        \o [i \in 1..Len(hdrs) |-> hdrs[i].m]

ReplyInFlight(t) ==
    \E i \in 1..Len(InFlight) :
        /\ InFlight[i].Type = "METHOD_RETURN"
        /\ InFlight[i].replySerial = msg[t].serial

\* Two callers are blocked, and the reply of t has arrived while no reply of
\* u has.
OnlyReplyOf(t, u) ==
    /\ t # u
    /\ pc[t] = "wait" /\ pc[u] = "wait"
    /\ ReplyInFlight(t)
    /\ ~ReplyInFlight(u)

\* C10: while a caller is blocked in Call the receive loop keeps dispatching:
\* every message that arrives is dispatched, and a caller whose reply has
\* arrived returns while the other caller is still waiting for its own.
C10_DispatchWhileBlocked ==
    /\ \A k \in 1..MaxInbound : (nSent >= k) ~> (nDisp >= k)
    /\ \A t \in Threads, u \in Threads :
          OnlyReplyOf(t, u) ~> (Returned(t) /\ pc[u] = "wait")

\* Witness of C10: two calls were answered in the reverse order of their
\* serials, and both callers have returned.
C10_Witness ==
    /\ \A t \in Threads : Returned(t)
    /\ \E i \in 1..Len(log), j \in 1..Len(log) :
        /\ i < j
        /\ log[i].kind = "reply" /\ log[j].kind = "reply"
        /\ log[i].key > log[j].key
        /\ \E t \in Threads : msg[t].serial = log[i].key
        /\ \E u \in Threads : msg[u].serial = log[j].key

----------------------------------------------------------------------------
\* The receive path: _MessageReceiver, _PopMessage, _UpdateBuffer, and the
\* messages _MessageDispatch drops.

\* The run loop takes a step inside _MessageDispatch.
DispatchStep ==
    /\ rlPc \in {"dispatch", "range"}
    /\ <<rlPc, sigIdx>>' # <<rlPc, sigIdx>>

NoRuleMatches(m) ==
    \A i \in 1..Len(signalMatchRules) : ~Match(signalMatchRules[i].mr, m)

\* A message that is to have no effect.
Silent(m) ==
    \/ m.Type = "SIGNAL" /\ NoRuleMatches(m)
    \/ m.Type \notin {"METHOD_RETURN", "ERROR", "SIGNAL"}

\* C14: dispatching a SIGNAL that matches no registered rule, or a message
\* whose type is neither METHOD_RETURN, ERROR nor SIGNAL (a METHOD_CALL, an
\* unknown type), invokes no handler and no callback (nothing is logged, no
\* ret is written, no caller is released) and leaves methodCallReplies and
\* signalMatchRules unchanged; a message of another type ends its dispatch
\* in one step.
C14_DroppedWithoutEffect ==
    [][(DispatchStep /\ Silent(cur)) =>
            /\ UNCHANGED <<log, ret, pc, methodCallReplies, signalMatchRules>>
            /\ cur.Type # "SIGNAL" => rlPc' = "recv"
      ]_vars

\* Witness of C14: a message of a type without a case was dispatched and
\* dropped while a call was pending and a handler of its interface was
\* registered.
C14_Witness ==
    /\ rlPc = "recv"
    /\ cur.Type \in OtherTypes
    /\ DOMAIN methodCallReplies # {}
    /\ \E i \in 1..Len(signalMatchRules) : Match(signalMatchRules[i].mr, cur)
    /\ \A i \in 1..Len(log) : log[i].seq # nDisp

\* C16: messages reach _MessageDispatch in the order they were written to
\* the stream (the k-th message dispatched is the k-th the daemon wrote),
\* the dispatch of a message begins only when the run loop is back at its
\* receive, that is when the dispatch of the message before it is complete,
\* and every callback or handler invocation is for the message being
\* dispatched.
C16_WireOrder ==
    [][/\ nDisp' # nDisp =>
            /\ rlPc = "recv"
            /\ rlPc' = "dispatch"
            /\ nDisp' = nDisp + 1
            /\ cur'.serial = nDisp'
       /\ log' # log =>
            /\ rlPc \in {"dispatch", "range"}
            /\ Len(log') = Len(log) + 1
            /\ SubSeq(log', 1, Len(log)) = log
            /\ log'[Len(log')].seq = nDisp
            /\ log'[Len(log')].msg = cur
            /\ cur.serial = nDisp
      ]_vars

\* Witness of C16: the second message is in dispatch, after a dispatch of
\* the first that invoked a callback or a handler, and the third is decoded
\* and waits for the run loop.
C16_Witness ==
    /\ nDisp = 2
    /\ rlPc \in {"dispatch", "range", "replySend", "delete"}
    /\ rxPc = "send"
    /\ rxMsg.serial = 3
    /\ \E i \in 1..Len(log) : log[i].seq = 1

\* No corrupted byte has arrived.
NoGarbage == \A i \in 1..Len(buffer \o wire) : (buffer \o wire)[i].k # "bad"

C18_IncompleteKeepsBuffer ==
    [][/\ (rxPc = "pop" /\ rxPc' # rxPc /\ Unmarshal(buffer).err = "Incomplete") =>
            /\ rxPc' = "update"
            /\ UNCHANGED <<buffer, rxMsg, cur, nDisp, log, wire>>
       /\ (rxPc = "update" /\ rxPc' # rxPc) =>
            /\ rxPc' = "pop"
            /\ \E n \in 0..Len(wire) :
                /\ buffer' = buffer \o Take(wire, n)
                /\ wire' = Drop(wire, n)
            /\ UNCHANGED <<rxMsg, cur, nDisp, log>>
      ]_vars

\* Witness of C18: the decode of a buffer that holds the first half of a
\* message has failed, the half is still in the buffer, nothing has been
\* dispatched, and the bytes the read will append are on the stream.
C18_Witness ==
    /\ rxPc = "update"
    /\ Len(buffer) = 1
    /\ buffer[1].k = "hdr"
    /\ rxMsg = NoMsg
    /\ nDisp = 0
    /\ wire # <<>>

\* C19: after a socket read that failed (an error or EOF) the receiver
\* takes no further step: no decode attempt and no socket read.
C19_ReadErrorStopsLoop ==
    [][readErr # "nil" => UNCHANGED <<rxPc, buffer, rxMsg>>]_vars

\* C20: while a malformed message is at the front of the buffer the
\* receiver performs no socket read, and no message is handed to the run loop.
C20_MalformedStopsLoop ==
    [][Unmarshal(buffer).err = "MalformedMessage" =>
            /\ ~(rxPc = "update" /\ rxPc' # rxPc)
            /\ nDisp' = nDisp
      ]_vars

----------------------------------------------------------------------------
\* The death of the connection.

\* C11: a Call that is blocked waiting for its reply is released once the
\* connection has died, that is once a socket read has failed with an error
\* or EOF.
C11_ReleasedOnDeath ==
    \A t \in Threads : (pc[t] = "wait" /\ readErr # "nil") ~> (pc[t] # "wait")

----------------------------------------------------------------------------
\* Emit.

\* C12: Emit writes one SIGNAL message and returns in the step of the write,
\* whether the write succeeded or failed: it adds no entry to
\* methodCallReplies, its return is a step of the caller alone (no inbound
\* message is read, decoded or dispatched in it) that is possible whenever
\* the caller is at the write, and the error it returns is nil exactly when
\* the bytes of the message were written.
C12_EmitFireAndForget ==
    [][\A t \in Threads :
        /\ (pc[t] # "emit" /\ pc'[t] = "emit") =>
            /\ msg'[t].Type = "SIGNAL"
            /\ UNCHANGED <<methodCallReplies, sockOut>>
        /\ pc[t] = "emit" => ENABLED EmitWrite(t)
        /\ (pc[t] = "emit" /\ pc'[t] # "emit") =>
            /\ pc'[t] = "idle"
            /\ UNCHANGED <<methodCallReplies, rxVars, wire, rlPc, cur, nDisp, log>>
            /\ \/ emitErr'[t] = "nil" /\ sockOut' = sockOut \o Marshal(msg[t])
               \/ emitErr'[t] \notin {"nil", "none"} /\ sockOut' = sockOut
      ]_vars

\* Witness of C12: an Emit whose write failed has returned the error while
\* the call of another thread was pending.
C12_Witness ==
    \E t, u \in Threads :
        /\ op[t] = "Emit" /\ pc[t] = "idle" /\ emitErr[t] = "EPIPE"
        /\ pc[u] = "wait" /\ msg[u].serial \in DOMAIN methodCallReplies

----------------------------------------------------------------------------
\* Connect.

\* An address that is missing or garbled: empty, without the ":" after the
\* transport, or with a pair in its list that has no "=".
Garbled(addr) ==
    \/ Len(addr) = 0
    \/ Index(addr, ":") = -1
    \/ \E i \in DOMAIN AddressList(addr) : \A j \in DOMAIN AddressList(addr)[i] :
            AddressList(addr)[i][j] # "="

\* The errors Connect returns for an address it cannot resolve.
AddressResolutionErrors == {"Unknown bus address", "Unknown address key"}

\* C13: when the address of a known bus is missing or garbled, Connect ends
\* by returning an address-resolution error: it does not dial and it does
\* not panic.
C13_GarbledAddressIsError ==
    (/\ connectRes # "none"
     /\ busType \in {"SessionBus", "SystemBus"}
     /\ Garbled(ResolveAddress(busType, address)))
        => connectRes \in AddressResolutionErrors

----------------------------------------------------------------------------
\* Exclusion on methodCallReplies.

\* C15: at most one goroutine at a time is inside an operation on
\* methodCallReplies.
C15_ExclusiveAccess == Cardinality(mapAccess) <= 1

----------------------------------------------------------------------------
\* The outbound stream.

\* The stream is whole marshalled messages, one after the other, followed by
\* at most the bytes the goroutine inside conn.Write has written so far.
RECURSIVE Framed(_)
Framed(out) ==
    IF out = <<>> THEN TRUE
    ELSE IF Len(out) < Len(Marshal(out[1].m))
    THEN \E t \in Threads :
            /\ pc[t] = "writing"
            /\ out = Take(Marshal(msg[t]), written[t])
    ELSE /\ Take(out, Len(Marshal(out[1].m))) = Marshal(out[1].m)
         /\ Framed(Drop(out, Len(Marshal(out[1].m))))

----------------------------------------------------------------------------
\* The error of Call.

\* C22: the error Call returns is nil on every return path; when the write
\* of the call fails nothing is reported: the caller goes on to wait for a
\* reply, and it stays blocked with its entry still in methodCallReplies.
C22_CallErrorAlwaysNil ==
    [][\A t \in Threads :
        /\ (pc[t] = "write" /\ pc'[t] # "write") =>
            /\ pc'[t] = "wait"
            /\ callErr'[t] = callErr[t]
            /\ msg[t].serial \in DOMAIN methodCallReplies'
        /\ (pc[t] = "wait" /\ writeErr[t] # "nil") =>
            /\ pc'[t] = "wait"
            /\ callErr'[t] = callErr[t]
            /\ msg[t].serial \in DOMAIN methodCallReplies'
        /\ (pc[t] = "wait" /\ pc'[t] # "wait") =>
            /\ pc'[t] = "idle"
            /\ callErr'[t] = "nil"
      ]_vars

\* Witness of C22: the write of a call failed and its caller is blocked with
\* its entry registered, after another call returned nil.
C22_Witness ==
    \E t, u \in Threads :
        /\ pc[t] = "wait" /\ writeErr[t] = "EPIPE"
        /\ msg[t].serial \in DOMAIN methodCallReplies
        /\ pc[u] = "idle" /\ callErr[u] = "nil" /\ Returned(u)

----------------------------------------------------------------------------
\* Calls made from a signal handler.

\* The handler running on the goroutine of the run loop is inside a Call.
HandlerInCall == rlPc \in {"hRegister", "hWrite", "hWait"}

\* C23: handlers run inline on the one dispatch goroutine, so once a signal
\* handler has called Call, the Call never returns (the goroutine stays
\* inside it, and the entry of the call stays in methodCallReplies: its
\* reply is not dispatched), no message is dispatched after that signal and
\* no further handler or callback runs.
C23_CallInHandlerBlocksDispatch ==
    [][HandlerInCall =>
            /\ HandlerInCall'
            /\ UNCHANGED <<cur, nDisp, log>>
            /\ rlPc = "hWait" =>
                /\ rlPc' = "hWait"
                /\ hCall \in DOMAIN methodCallReplies'
            /\ \A t \in Threads : pc[t] = "wait" => pc'[t] = "wait"
      ]_vars

\* Witness of C23: the handler of a signal is blocked inside its Call, the
\* reply to that call has been read and decoded, and the receiver waits to
\* hand it to the run loop.
C23_Witness ==
    /\ rlPc = "hWait"
    /\ cur.Type = "SIGNAL"
    /\ hCall \in DOMAIN methodCallReplies
    /\ rxPc = "send"
    /\ rxMsg.Type = "METHOD_RETURN"
    /\ rxMsg.replySerial = hCall

====
